---- MODULE Spec2Model ----
(***************************************************************************)
(* The `why` command (src/cli/commands/why.js): cleanQuery and run, over   *)
(* the resolver graph and the flat hoisted tree that run obtains from the  *)
(* installer, the resolver and the linker.                                 *)
(*                                                                         *)
(* why.js is modelled from its code.  The installer's manifest reading,    *)
(* the resolver and the linker are not part of the source at hand; they    *)
(* are modelled from the written specification (sections 3, 4.1, 4.3, 6).  *)
(***************************************************************************)
EXTENDS Integers, Sequences, FiniteSets, TLC

(***************************************************************************)
(* Bounds of the model.                                                    *)
(***************************************************************************)
\* root declarations read from the manifest
MaxRoots == 2
\* requests created in one resolution pass
MaxReqs == 3
\* conflict-driven renames in one hoist pass
MaxRenames == 3
\* path segments of the raw query argument
MaxSegs == 2

(***************************************************************************)
(* The universe: patterns, the identities they resolve to, package names.  *)
(***************************************************************************)
None == "none"

\* undefined, as read from a map that has no such key
Undefined == ""

AllPatterns == <<"a@^1.0.0", "c@^1.0.0", "c@^2.0.0">>

Patterns == {AllPatterns[i] : i \in 1..Len(AllPatterns)}

Pkgs == {"a@1.0.0", "c@1.0.0", "c@2.0.0"}

Names == {"a", "c"}

Origins == {"dependencies", "devDependencies"}

\* the section order in which the manifest is read
OriginRank(o) == IF o = "dependencies" THEN 1 ELSE 2

\* the identity a pattern resolves to (lockfile pin or registry answer)
ResolveVersion(p) ==
  CASE p = "a@^1.0.0" -> "a@1.0.0"
    [] p = "c@^1.0.0" -> "c@1.0.0"
    [] p = "c@^2.0.0" -> "c@2.0.0"

\* the name of a pattern ("name@range")
PatternName(p) == IF p = "a@^1.0.0" THEN "a" ELSE "c"

\* the name field of a resolved package
PkgName(k) == IF k = "a@1.0.0" THEN "a" ELSE "c"

(***************************************************************************)
(* Sequence helpers.                                                       *)
(***************************************************************************)
Range(s) == {s[i] : i \in 1..Len(s)}

\* Array.prototype.indexOf, 1-based; 0 when absent (JavaScript's -1)
IndexOf(s, x) ==
  IF x \in Range(s) THEN CHOOSE i \in 1..Len(s) : s[i] = x /\ \A j \in 1..(i - 1) : s[j] # x
  ELSE 0

RECURSIVE Reverse(_)
\* Array.prototype.reverse
Reverse(s) == IF s = <<>> THEN <<>> ELSE Append(Reverse(Tail(s)), Head(s))

RECURSIVE Join(_, _)
\* Array.prototype.join
Join(s, sep) ==
  IF s = <<>> THEN ""
  ELSE IF Len(s) = 1 THEN s[1]
  ELSE s[1] \o sep \o Join(Tail(s), sep)

RECURSIVE Concat(_)
\* the string made of the tokens of s
Concat(s) == IF s = <<>> THEN "" ELSE Head(s) \o Concat(Tail(s))

\* the sequences over S of length lo..hi
SeqsOf(S, lo, hi) == UNION {[1..n -> S] : n \in lo..hi}

(***************************************************************************)
(* cleanQuery (why.js 25-42).  The raw argument is a relative path given   *)
(* as its segments: <<"node_modules", "c">> is "node_modules/c".            *)
(* (An absolute path of an existing file is first made relative to the     *)
(* working directory, line 27-30; the arguments drawn here are relative.)  *)
(***************************************************************************)
Segs == Names \cup {"node_modules"}

RawQueries == SeqsOf(Segs, 1, MaxSegs)

RECURSIVE NodeModulesMatch(_, _)
\* segment i, with the separator before it (or the start of the string) and
\* the separator after it, is a match of /([\\/]|^)node_modules[\\/]/g; the
\* matches of a global replace do not overlap, so the separator a match has
\* consumed cannot open the next one
NodeModulesMatch(raw, i) ==
  /\ i >= 1
  /\ i < Len(raw)
  /\ raw[i] = "node_modules"
  /\ ~NodeModulesMatch(raw, i - 1)

RECURSIVE ReplaceNodeModules(_, _)
\* line 33: the tokens of the string from segment i on, every match replaced by "#"
ReplaceNodeModules(raw, i) ==
  IF i > Len(raw) THEN <<>>
  ELSE IF NodeModulesMatch(raw, i) THEN <<"#">> \o ReplaceNodeModules(raw, i + 1)
  ELSE (IF i > 1 /\ ~NodeModulesMatch(raw, i - 1) THEN <<"/">> ELSE <<>>)
         \o <<raw[i]>> \o ReplaceNodeModules(raw, i + 1)

RECURSIVE StripLeadingHashes(_)
\* line 36: query.replace(/^#+/g, '')
StripLeadingHashes(t) ==
  IF t # <<>> /\ Head(t) = "#" THEN StripLeadingHashes(Tail(t)) ELSE t

RECURSIVE CutAtSeparator(_)
\* line 39: query.replace(/[\\/](.*?)$/g, ''): all from the first separator on
CutAtSeparator(t) ==
  IF t = <<>> \/ Head(t) = "/" THEN <<>> ELSE <<Head(t)>> \o CutAtSeparator(Tail(t))

cleanQuery(raw) == Concat(CutAtSeparator(StripLeadingHashes(ReplaceNodeModules(raw, 1))))

(***************************************************************************)
(* State.                                                                  *)
(***************************************************************************)
VARIABLES
  pc,                   \* position of run
  reported,             \* the calls made on the reporter, in order
  manifest,             \* the root declarations read: <<pattern, origin>> pairs
  rootPatternsToOrigin, \* install.rootPatternsToOrigin
  requests,             \* the requests of the pass: [pattern, parentRequest]
  nextReq,              \* the next request the resolver takes up
  resolverPatterns,     \* the resolver's map from pattern to resolved package
  refs,                 \* per package, the reference's patterns and requests
  expanded,             \* packages whose dependencies have been enqueued
  hoisted,              \* the flat hoisted tree, in enumeration order
  query,                \* the cleaned query
  match,                \* index in hoisted of the matched entry, 0 for none
  reasons,              \* run's reasons array
  reqIdx,               \* position of the loop over matchRequests
  chain,                \* the chain under construction
  delegator             \* the request the walk is at, 0 for none

vars == <<pc, reported, manifest, rootPatternsToOrigin, requests, nextReq,
          resolverPatterns, refs, expanded, hoisted, query, match, reasons,
          reqIdx, chain, delegator>>

graphVars == <<manifest, rootPatternsToOrigin, requests, nextReq,
               resolverPatterns, refs, expanded>>

runVars == <<query, match, reasons, reqIdx, chain, delegator>>

\* reporter.lang(msg, arg): a message and its argument
Lang(msg, arg) == [msg |-> msg, arg |-> arg]

\* one call on the reporter: its kind, the message with its string argument,
\* and the reasons it carries
Event(kind, msg, arg, list) == [kind |-> kind, msg |-> msg, arg |-> arg, list |-> list]

Init ==
  /\ pc = "start"
  /\ reported = <<>>
  /\ manifest = <<>>
  /\ rootPatternsToOrigin = [p \in Patterns |-> Undefined]
  /\ requests = <<>>
  /\ nextReq = 1
  /\ resolverPatterns = [p \in Patterns |-> None]
  /\ refs = [k \in Pkgs |-> [patterns |-> <<>>, requests |-> <<>>]]
  /\ expanded = {}
  /\ hoisted = <<>>
  /\ query = ""
  /\ match = 0
  /\ reasons = <<>>
  /\ reqIdx = 0
  /\ chain = <<>>
  /\ delegator = 0

(***************************************************************************)
(* run, lines 50-58: the first two progress steps and the reading of the   *)
(* manifest (install.fetchRequestFromCwd).                                 *)
(***************************************************************************)
PatternRank(p) == IndexOf(AllPatterns, p)

\* a manifest: sections in their order, one range per name in a section
Manifests ==
  {m \in SeqsOf(Patterns \X Origins, 0, MaxRoots) :
     \A i, j \in 1..Len(m) :
       i < j =>
         /\ OriginRank(m[i][2]) <= OriginRank(m[j][2])
         /\ m[i][2] = m[j][2] =>
              /\ PatternName(m[i][1]) # PatternName(m[j][1])
              /\ PatternRank(m[i][1]) < PatternRank(m[j][1])}

RECURSIVE OriginsOf(_, _)
\* the origin map after the declarations of m are recorded one by one
OriginsOf(m, acc) ==
  IF m = <<>> THEN acc
  ELSE OriginsOf(Tail(m), [acc EXCEPT ![Head(m)[1]] = Head(m)[2]])

\* one root request per declaration, none with a parent
RootRequests(m) == [i \in 1..Len(m) |-> [pattern |-> m[i][1], parentRequest |-> 0]]

fetchRequestFromCwd(m) ==
  /\ pc = "start"
  /\ reported' = reported \o <<Event("step", "whyStart", "", <<>>),
                               Event("step", "whyInitGraph", "", <<>>)>>
  /\ manifest' = m
  /\ rootPatternsToOrigin' = OriginsOf(m, rootPatternsToOrigin)
  /\ requests' = RootRequests(m)
  /\ pc' = IF m = <<>> THEN "hoist" ELSE "resolve"
  /\ UNCHANGED <<nextReq, resolverPatterns, refs, expanded, hoisted>>
  /\ UNCHANGED runVars

(***************************************************************************)
(* run, line 59: install.resolver.init.  One step resolves one pending     *)
(* request, in discovery order.                                            *)
(***************************************************************************)
\* the dependency sets a package may declare: one range per name
DepChoices(room) ==
  {d \in SUBSET Patterns :
     /\ Cardinality(d) <= room
     /\ \A p, q \in d : PatternName(p) = PatternName(q) => p = q}

\* the child requests of request r for the dependencies d, in declaration order
ChildRequests(d, r) ==
  LET ps == SelectSeq(AllPatterns, LAMBDA p : p \in d)
  IN  [i \in 1..Len(ps) |-> [pattern |-> ps[i], parentRequest |-> r]]

\* the reference of package k after request r for pattern p is attached
Attach(ref, p, r) ==
  [patterns |-> IF p \in Range(ref.patterns) THEN ref.patterns
                ELSE Append(ref.patterns, p),
   requests |-> Append(ref.requests, r)]

find(d) ==
  /\ pc = "resolve"
  /\ nextReq <= Len(requests)
  /\ LET r == nextReq
         p == requests[r].pattern
         k == ResolveVersion(p)
         kids == IF k \in expanded THEN <<>> ELSE ChildRequests(d, r)
     IN  /\ d \in (IF k \in expanded THEN {{}} ELSE DepChoices(MaxReqs - Len(requests)))
         /\ resolverPatterns' = [resolverPatterns EXCEPT ![p] = k]
         /\ refs' = [refs EXCEPT ![k] = Attach(refs[k], p, r)]
         /\ expanded' = expanded \cup {k}
         /\ requests' = requests \o kids
         /\ nextReq' = nextReq + 1
         /\ pc' = IF nextReq' > Len(requests') THEN "hoist" ELSE "resolve"
  /\ UNCHANGED <<reported, manifest, rootPatternsToOrigin, hoisted>>
  /\ UNCHANGED runVars

\* resolver.getResolvedPattern: the package, or None
getResolvedPattern(p) == resolverPatterns[p]

(***************************************************************************)
(* run, line 60: install.linker.getFlatHoistedTree.  Every resolved        *)
(* package gets one entry; a conflict renames an entry, which keeps the    *)
(* key it leaves in previousKeys.                                          *)
(***************************************************************************)
\* the placements of a package: its name, unqualified or under another package
KeysOf(k) == {PkgName(k)} \cup {PkgName(j) \o "#" \o PkgName(k) : j \in Pkgs \ {k}}

Keys == UNION {KeysOf(k) : k \in Pkgs}

ResolvedPkgs == {k \in Pkgs : refs[k].requests # <<>>}

Placed == {hoisted[i].pkg : i \in 1..Len(hoisted)}

UsedKeys == {hoisted[i].key : i \in 1..Len(hoisted)}

Renames == LET RECURSIVE Sum(_)
               Sum(i) == IF i = 0 THEN 0 ELSE Len(hoisted[i].previousKeys) + Sum(i - 1)
           IN  Sum(Len(hoisted))

\* the traversal is deterministic: packages are placed in discovery order
NextToPlace ==
  CHOOSE k \in ResolvedPkgs \ Placed :
    \A j \in ResolvedPkgs \ Placed : refs[k].requests[1] <= refs[j].requests[1]

\* the candidate key of a package is its unqualified name; when another
\* entry holds it, the package goes to a qualified key and keeps the rejected
\* candidate in previousKeys
place ==
  /\ pc = "hoist"
  /\ ResolvedPkgs \ Placed # {}
  /\ LET k == NextToPlace
         n == PkgName(k)
     IN  IF n \notin UsedKeys
           THEN hoisted' = Append(hoisted, [key |-> n, originalKey |-> n,
                                            previousKeys |-> <<>>, pkg |-> k])
           ELSE \E key \in KeysOf(k) \ UsedKeys :
                  hoisted' = Append(hoisted, [key |-> key, originalKey |-> n,
                                              previousKeys |-> <<n>>, pkg |-> k])
  /\ UNCHANGED <<pc, reported>>
  /\ UNCHANGED graphVars
  /\ UNCHANGED runVars

\* a later conflict displaces the entry placed last; it keeps the key it leaves
rename(key) ==
  /\ pc = "hoist"
  /\ hoisted # <<>>
  /\ Renames < MaxRenames
  /\ LET i == Len(hoisted)
     IN  /\ key \in KeysOf(hoisted[i].pkg) \ UsedKeys
         /\ hoisted' = [hoisted EXCEPT ![i].key = key,
                                       ![i].previousKeys = Append(@, hoisted[i].key)]
  /\ UNCHANGED <<pc, reported>>
  /\ UNCHANGED graphVars
  /\ UNCHANGED runVars

(***************************************************************************)
(* run, lines 63-76: the search of the hoisted tree.                       *)
(***************************************************************************)
\* line 67
Matches(info, q) == info.key = q \/ IndexOf(info.previousKeys, q) >= 1

RECURSIVE FindMatchNoBreak(_, _, _)
\* the scan without its break: a later matching entry replaces an earlier one
FindMatchNoBreak(h, q, i) ==
  IF i > Len(h) THEN 0
  ELSE LET later == FindMatchNoBreak(h, q, i + 1)
       IN  IF later # 0 THEN later ELSE IF Matches(h[i], q) THEN i ELSE 0

RECURSIVE FindMatchAssignsFirst(_, _, _)
\* the scan that binds match before it tests the entry: with no matching
\* entry the last entry stays bound
FindMatchAssignsFirst(h, q, i) ==
  IF i > Len(h) THEN Len(h)
  ELSE IF Matches(h[i], q) THEN i
  ELSE FindMatchAssignsFirst(h, q, i + 1)

RECURSIVE FindMatch(_, _, _)
\* lines 65-71: the scan from entry i on stops at the first entry that matches
FindMatch(h, q, i) ==
  IF i > Len(h) THEN 0
  ELSE IF Matches(h[i], q) THEN i
  ELSE FindMatch(h, q, i + 1)

\* args[0] is cleaned at line 50; the cleaning only binds the local query, which
\* is first read at line 67, so the argument is drawn where the search begins
finding(raw) ==
  /\ pc = "hoist"
  /\ ResolvedPkgs \subseteq Placed
  /\ query' = cleanQuery(raw)
  /\ match' = FindMatch(hoisted, query', 1)
  /\ IF match' = 0
       THEN /\ reported' = reported \o <<Event("step", "whyFinding", "", <<>>),
                                         Event("error", "whyUnknownMatch", "", <<>>)>>
            /\ pc' = "done"
            /\ reqIdx' = reqIdx
       ELSE /\ reported' = Append(reported, Event("step", "whyFinding", "", <<>>))
            /\ pc' = "requests"
            /\ reqIdx' = 1
  /\ UNCHANGED <<reasons, chain, delegator, hoisted>>
  /\ UNCHANGED graphVars

(***************************************************************************)
(* run, lines 78-106: one reason per request that has a resolved parent.   *)
(***************************************************************************)
matchRef == refs[hoisted[match].pkg]

matchPatterns == matchRef.patterns

matchRequests == matchRef.requests

\* lines 88-96: the request at hand yields no chain
Skipped(r) ==
  IF requests[r].parentRequest = 0 THEN TRUE
  ELSE getResolvedPattern(requests[requests[r].parentRequest].pattern) = None

skipRequest ==
  /\ pc = "requests"
  /\ reqIdx <= Len(matchRequests)
  /\ Skipped(matchRequests[reqIdx])
  /\ reqIdx' = reqIdx + 1
  /\ chain' = <<>>
  /\ UNCHANGED <<pc, reported, hoisted, query, match, reasons, delegator>>
  /\ UNCHANGED graphVars

\* lines 98-100
beginChain ==
  /\ pc = "requests"
  /\ reqIdx <= Len(matchRequests)
  /\ ~Skipped(matchRequests[reqIdx])
  /\ chain' = <<>>
  /\ delegator' = requests[matchRequests[reqIdx]].parentRequest
  /\ pc' = "walk"
  /\ UNCHANGED <<reported, hoisted, query, match, reasons, reqIdx>>
  /\ UNCHANGED graphVars

\* the walk that stops after the direct parent
NextDelegatorNone(d) == 0

\* the walk that never leaves the direct parent
NextDelegatorSame(d) == d

\* line 103: delegator = delegator.parentRequest
NextDelegator(d) == requests[d].parentRequest

\* the chain joined as it was pushed, leaf first
ChainTextLeafFirst(c) == Join(c, "#")

\* line 105: chain.reverse().join('#')
ChainText(c) == Join(Reverse(c), "#")

\* lines 101-105: one turn of the do-while; getStrictResolvedPattern throws
\* on a pattern that is not resolved, and the exception ends run.  A chain
\* has at most one name per request of the pass, which caps the array.
walkStep ==
  /\ pc = "walk"
  /\ Len(chain) < MaxReqs
  /\ LET k == getResolvedPattern(requests[delegator].pattern)
     IN  IF k = None
           THEN /\ pc' = "threw"
                /\ UNCHANGED <<chain, delegator, reasons, reqIdx>>
           ELSE /\ chain' = Append(chain, PkgName(k))
                /\ delegator' = NextDelegator(delegator)
                /\ IF delegator' = 0
                     THEN /\ reasons' = Append(reasons, Lang("whyDependedOn", ChainText(chain')))
                          /\ reqIdx' = reqIdx + 1
                          /\ pc' = "requests"
                     ELSE UNCHANGED <<reasons, reqIdx, pc>>
  /\ UNCHANGED <<reported, hoisted, query, match>>
  /\ UNCHANGED graphVars

(***************************************************************************)
(* run, lines 108-149: the remaining reasons, the summary, the statistics. *)
(***************************************************************************)
RECURSIVE SpecifiedReasonsUnguarded(_, _)
\* the loop without its test of rootType
SpecifiedReasonsUnguarded(ps, origins) ==
  IF ps = <<>> THEN <<>>
  ELSE <<Lang("whySpecified", origins[Head(ps)])>> \o SpecifiedReasonsUnguarded(Tail(ps), origins)

RECURSIVE SpecifiedReasonsInverted(_, _)
\* the loop with its test of rootType inverted
SpecifiedReasonsInverted(ps, origins) ==
  IF ps = <<>> THEN <<>>
  ELSE (IF origins[Head(ps)] = Undefined
          THEN <<Lang("whySpecified", origins[Head(ps)])>>
          ELSE <<>>) \o SpecifiedReasonsInverted(Tail(ps), origins)

RECURSIVE SpecifiedReasons(_, _)
\* lines 109-115
SpecifiedReasons(ps, origins) ==
  IF ps = <<>> THEN <<>>
  ELSE (IF origins[Head(ps)] # Undefined
          THEN <<Lang("whySpecified", origins[Head(ps)])>>
          ELSE <<>>) \o SpecifiedReasons(Tail(ps), origins)

\* lines 118-120
HoistedTo(q, info) ==
  IF q = info.originalKey THEN <<Event("info", "whyHoistedTo", info.key, <<>>)>> ELSE <<>>

RECURSIVE HoistedFromUnfiltered(_, _)
\* the loop without its comparison with the current key
HoistedFromUnfiltered(prev, key) ==
  IF prev = <<>> THEN <<>>
  ELSE <<Lang("whyHoistedFrom", Head(prev))>> \o HoistedFromUnfiltered(Tail(prev), key)

RECURSIVE HoistedFromReasons(_, _)
\* lines 123-127
HoistedFromReasons(prev, key) ==
  IF prev = <<>> THEN <<>>
  ELSE (IF Head(prev) # key THEN <<Lang("whyHoistedFrom", Head(prev))>> ELSE <<>>)
         \o HoistedFromReasons(Tail(prev), key)

\* lines 130-137
Summary(rs) ==
  IF Len(rs) = 1 THEN <<Event("info", "whyReason", "", <<rs[1]>>)>>
  ELSE IF Len(rs) > 1 THEN <<Event("info", "whyReasons", "", <<>>), Event("list", "reasons", "", rs)>>
  ELSE <<Event("error", "whyWhoKnows", "", <<>>)>>

\* lines 140-149
Stats ==
  <<Event("info", "whyDiskSizeWithout", "0MB", <<>>),
    Event("info", "whyDiskSizeUnique", "0MB", <<>>),
    Event("info", "whyDiskSizeTransitive", "0MB", <<>>),
    Event("info", "whySharedDependencies", "0", <<>>)>>

explain ==
  /\ pc = "requests"
  /\ reqIdx > Len(matchRequests)
  /\ reasons' = reasons \o SpecifiedReasons(matchPatterns, rootPatternsToOrigin)
                        \o HoistedFromReasons(hoisted[match].previousKeys, hoisted[match].key)
  /\ reported' = reported \o HoistedTo(query, hoisted[match]) \o Summary(reasons') \o Stats
  /\ pc' = "done"
  /\ UNCHANGED <<hoisted, query, match, reqIdx, chain, delegator>>
  /\ UNCHANGED graphVars

(***************************************************************************)
(* The specifications.                                                     *)
(***************************************************************************)
Next ==
  \/ \E m \in Manifests : fetchRequestFromCwd(m)
  \/ \E d \in SUBSET Patterns : find(d)
  \/ place
  \/ \E key \in Keys : rename(key)
  \/ \E raw \in RawQueries : finding(raw)
  \/ skipRequest
  \/ beginChain
  \/ walkStep
  \/ explain

Spec == Init /\ [][Next]_vars

\* run is one asynchronous function: once called, each of its steps is taken
FairSpec == Spec /\ WF_vars(Next)

(***************************************************************************)
(* Properties.                                                             *)
(***************************************************************************)
\* the search of the hoisted tree has run
Searched == pc \in {"requests", "walk", "done", "threw"}

\* run has returned with a matched entry
Explained == pc = "done" /\ match # 0

EntryMatches(i) ==
  \/ hoisted[i].key = query
  \/ \E j \in 1..Len(hoisted[i].previousKeys) : hoisted[i].previousKeys[j] = query

MatchingEntries == {i \in 1..Len(hoisted) : EntryMatches(i)}

ReasonsOf(msg) == SelectSeq(reasons, LAMBDA x : x.msg = msg)

ReportedOf(msgs) == SelectSeq(reported, LAMBDA e : e.msg \in msgs)

Parent(r) == requests[r].parentRequest

RECURSIVE AncestorNames(_)
\* the names of the packages of the ancestors of request r, root first
AncestorNames(r) ==
  IF Parent(r) = 0 THEN <<>>
  ELSE Append(AncestorNames(Parent(r)), PkgName(resolverPatterns[requests[Parent(r)].pattern]))

RECURSIVE Depth(_)
\* the number of requests from r up to the root, r included
Depth(r) == IF r = 0 THEN 0 ELSE 1 + Depth(Parent(r))

\* the requests of the matched package that have a parent whose pattern is
\* resolved
WithParent ==
  SelectSeq(matchRequests,
            LAMBDA r : IF Parent(r) = 0 THEN FALSE
                       ELSE resolverPatterns[requests[Parent(r)].pattern] # None)

\* C1: an entry matches exactly when its key is the query or its previousKeys
\* holds the query; the entry run uses, from the search on, is the first
\* matching entry in the order of the hoisted tree, and none when no entry
\* matches.
C1_FirstMatchWins ==
  Searched =>
    IF MatchingEntries = {} THEN match = 0
    ELSE match \in MatchingEntries /\ \A j \in MatchingEntries : match <= j

C1_SeveralEntriesMatch == Explained /\ Cardinality(MatchingEntries) >= 2

\* C2: when no entry matches, run returns after the single whyUnknownMatch
\* error: no exception, no reason, no hoisted-to message, no statistics.
C2_NotFound ==
  (Searched /\ MatchingEntries = {}) =>
    /\ pc = "done"
    /\ reasons = <<>>
    /\ reported = <<Event("step", "whyStart", "", <<>>),
                    Event("step", "whyInitGraph", "", <<>>),
                    Event("step", "whyFinding", "", <<>>),
                    Event("error", "whyUnknownMatch", "", <<>>)>>

C2_NoMatchInTree == pc = "done" /\ hoisted # <<>> /\ MatchingEntries = {}

\* C3: every request of the matched package that has a parent yields one
\* whyDependedOn reason, in request order, whose chain is the names of its
\* ancestors, root first and direct parent last; a request without a parent
\* yields none.
C3_DependedOnChains ==
  Explained =>
    LET got == ReasonsOf("whyDependedOn")
    IN  /\ Len(got) = Len(WithParent)
        /\ \A i \in 1..Len(got) : got[i].arg = Join(AncestorNames(WithParent[i]), "#")

C3_TwoAncestors ==
  /\ Explained
  /\ \E i \in 1..Len(WithParent) :
       /\ Len(AncestorNames(WithParent[i])) = 2
       /\ AncestorNames(WithParent[i])[1] # AncestorNames(WithParent[i])[2]

\* C4: after the resolution pass every request's pattern is resolved, the
\* strict lookup of the walk never throws, and the chain of a request has one
\* name per ancestor.
C4_StrictLookupNeverFails ==
  /\ pc # "threw"
  /\ pc \in {"hoist", "requests", "walk", "done"} =>
       \A r \in 1..Len(requests) : resolverPatterns[requests[r].pattern] # None
  /\ pc = "walk" => Len(chain) + Depth(delegator) = Depth(matchRequests[reqIdx]) - 1
  /\ (pc \in {"requests", "done"} /\ match # 0 /\ chain # <<>>) =>
       Len(chain) = Depth(matchRequests[reqIdx - 1]) - 1

C4_LongChain == Explained /\ Len(chain) >= 2

\* a pattern the manifest declares
IsRoot(p) == \E i \in 1..Len(manifest) : manifest[i][1] = p

\* C5: every root pattern of the matched package yields exactly one
\* whySpecified reason, which carries the origin recorded for the pattern, an
\* origin the manifest declares for it; the other patterns yield none.
C5_SpecifiedInManifest ==
  Explained =>
    LET got == ReasonsOf("whySpecified")
        roots == SelectSeq(matchPatterns, IsRoot)
    IN  /\ Len(got) = Len(roots)
        /\ \A i \in 1..Len(got) :
             /\ got[i].arg = rootPatternsToOrigin[roots[i]]
             /\ \E j \in 1..Len(manifest) : manifest[j] = <<roots[i], got[i].arg>>

C5_RootPatternMatched ==
  /\ Explained
  /\ \E p \in Range(matchPatterns) : IsRoot(p)
  /\ ReasonsOf("whySpecified") # <<>>

\* C6: every classification the manifest declares for a pattern of the
\* matched package is reported, both of them when two sections declare the
\* pattern.
C6_BothClassificationsReported ==
  Explained =>
    \A i \in 1..Len(manifest) :
      manifest[i][1] \in Range(matchPatterns) =>
        \E j \in 1..Len(reasons) : reasons[j] = Lang("whySpecified", manifest[i][2])

\* C7: the whyHoistedTo message is reported exactly when the key of the
\* matched entry differs from its original key.
C7_HoistedToIffRelocated ==
  Explained =>
    (ReportedOf({"whyHoistedTo"}) # <<>>
       <=> hoisted[match].key # hoisted[match].originalKey)

\* the keys of the whyHoistedFrom reasons, in order
HoistedFromKeys ==
  LET got == ReasonsOf("whyHoistedFrom") IN [i \in 1..Len(got) |-> got[i].arg]

\* the summary carries the reasons
SummaryCarriesReasons ==
  \E i \in 1..Len(reported) :
    /\ reported[i].msg \in {"whyReason", "reasons"}
    /\ reported[i].list = reasons

C9_RunTerminates == <>(pc = "done")

RECURSIVE Ancestors(_)
\* the requests above request r
Ancestors(r) == IF Parent(r) = 0 THEN {} ELSE {Parent(r)} \cup Ancestors(Parent(r))

C9_SelfDependent ==
  /\ Explained
  /\ \E i \in 1..Len(matchRequests) :
       \E a \in Ancestors(matchRequests[i]) :
         resolverPatterns[requests[a].pattern] = hoisted[match].pkg

\* C10: a matched entry has at least one reason, so whyWhoKnows is never
\* reported, and exactly one of the three summaries is.
C10_SomeReason ==
  Explained =>
    /\ reasons # <<>>
    /\ ReportedOf({"whyWhoKnows"}) = <<>>
    /\ Len(ReportedOf({"whyReason", "whyReasons", "whyWhoKnows"})) = 1

C10_SingleReason == Explained /\ Len(reasons) = 1

====
